---- MODULE Spec2Model ----
(***************************************************************************)
(* A model of minigrep (src/lib.rs): Config::build, search,                *)
(* search_case_insensitive and run.                                        *)
(*                                                                         *)
(* Text is a sequence of Unicode scalar values (integers).  Three          *)
(* specifications share the variables:                                     *)
(*   SpecSearch  the two search functions applied to bounded inputs,       *)
(*   SpecBuild   Config::build applied to bounded argument vectors and     *)
(*               states of the IGNORE_CASE environment variable,           *)
(*   Spec        run, step by step, on a bounded file system.              *)
(***************************************************************************)
EXTENDS Integers, Sequences, FiniteSets, TLC

VARIABLES
    pc,        \* position of the operation under way
    query,     \* search input: the query
    contents,  \* search input / run's local `contents`
    res_cs,    \* value returned by search
    res_ci,    \* value returned by search_case_insensitive
    args,      \* Config::build input: the argument vector
    env,       \* the IGNORE_CASE entry of the process environment
    built,     \* value returned by Config::build
    config,    \* run's parameter
    disk,      \* text stored in the one readable file
    results,   \* run's local `results`
    idx,       \* position of run's for loop in `results`
    out,       \* characters written to standard output so far
    ret        \* value returned by run

vars == <<pc, query, contents, res_cs, res_ci, args, env, built,
          config, disk, results, idx, out, ret>>

----------------------------------------------------------------------------
(* Bounds of the model                                                      *)

MaxContentLen == 3
MaxQueryLen == 2
MaxArgs == 4
MaxEnvLen == 2
MaxFileLen == 3
MaxRunQueryLen == 1

----------------------------------------------------------------------------
(* Characters                                                               *)

LF == 10
CR == 13
CapA == 65
SmallA == 97
SmallI == 105
CapIDot == 304
CombiningDot == 775
CapSigma == 931
FinalSigma == 962
SmallSigma == 963

ContentChars == {LF, CR, CapA, SmallA, CapSigma, CapIDot}
QueryChars == {CR, CapA, SmallA, SmallI, CapSigma, CapIDot}
FileChars == {LF, CapA, SmallA}
RunQueryChars == {CapA, SmallA}

\* '1' and a byte that occurs in no UTF-8 encoding.
EnvBytes == {49, 255}
ArgStrings == {"prog", "foo", "poem.txt"}
Paths == {"poem.txt", "missing.txt", "secret.txt", "binary.dat"}

SeqsUpTo(S, n) == UNION {[1..k -> S] : k \in 0..n}

Range(s) == {s[i] : i \in 1..Len(s)}

None == [tag |-> "None"]
Some(v) == [tag |-> "Some", val |-> v]
Ok(v) == [tag |-> "Ok", val |-> v]
Err(e) == [tag |-> "Err", err |-> e]

----------------------------------------------------------------------------
(* str::lines                                                               *)

\* Position of the first line feed of s, 0 when there is none.
FirstLF(s) ==
    IF \E i \in 1..Len(s) : s[i] = LF
    THEN CHOOSE i \in 1..Len(s) : s[i] = LF /\ \A j \in 1..(i - 1) : s[j] # LF
    ELSE 0

RECURSIVE SplitInclusive(_)
\* s.split_inclusive('\n'): the pieces of s, each keeping its line feed.
SplitInclusive(s) ==
    IF s = <<>> THEN <<>>
    ELSE LET i == FirstLF(s) IN
         IF i = 0 THEN <<s>>
         ELSE <<SubSeq(s, 1, i)>> \o SplitInclusive(SubSeq(s, i + 1, Len(s)))

StripSuffix(s, c) ==
    IF Len(s) > 0 /\ s[Len(s)] = c THEN Ok(SubSeq(s, 1, Len(s) - 1)) ELSE None

\* Variant of StripLine that leaves the carriage return in the line.
StripLineKeepCR(piece) ==
    LET a == StripSuffix(piece, LF) IN
    IF a.tag = "None" THEN piece ELSE a.val

\* The map of str::lines: drop one "\n", then one "\r" only if a "\n" was
\* dropped.
StripLine(piece) ==
    LET a == StripSuffix(piece, LF) IN
    IF a.tag = "None" THEN piece
    ELSE LET b == StripSuffix(a.val, CR) IN
         IF b.tag = "None" THEN a.val ELSE b.val

Lines(s) ==
    LET p == SplitInclusive(s) IN [i \in 1..Len(p) |-> StripLine(p[i])]

----------------------------------------------------------------------------
(* str::contains                                                            *)

StartsWith(hay, needle) ==
    /\ Len(needle) <= Len(hay)
    /\ \A i \in 1..Len(needle) : hay[i] = needle[i]

RECURSIVE ContainsNonEmpty(_, _)
\* Variant of Contains that never finds a needle in an empty haystack and
\* never finds the empty needle.
ContainsNonEmpty(hay, needle) ==
    IF hay = <<>> \/ needle = <<>> THEN FALSE
    ELSE StartsWith(hay, needle) \/ ContainsNonEmpty(Tail(hay), needle)

RECURSIVE Contains(_, _)
\* hay.contains(needle): scan the start positions from left to right.
Contains(hay, needle) ==
    IF StartsWith(hay, needle) THEN TRUE
    ELSE IF hay = <<>> THEN FALSE
    ELSE Contains(Tail(hay), needle)

----------------------------------------------------------------------------
(* str::to_lowercase                                                        *)

Cased(c) ==
    \/ c \in 65..90 \/ c \in 97..122
    \/ c \in {304, 305}
    \/ c \in 913..929 \/ c \in 931..937 \/ c \in 945..969

Case_Ignorable(c) ==
    c \in {39, 46, 58, 94, 96} \/ c \in 768..879

RECURSIVE case_ignorable_then_cased(_)
\* Skip the case-ignorable characters; is the next one cased?
case_ignorable_then_cased(s) ==
    IF s = <<>> THEN FALSE
    ELSE IF Case_Ignorable(Head(s)) THEN case_ignorable_then_cased(Tail(s))
    ELSE Cased(Head(s))

Reverse(s) == [i \in 1..Len(s) |-> s[Len(s) + 1 - i]]

\* Final_Sigma: a capital sigma at position i of s lowers to the final form
\* when a cased letter precedes it and none follows it.
map_uppercase_sigma(s, i) ==
    IF /\ case_ignorable_then_cased(Reverse(SubSeq(s, 1, i - 1)))
       /\ ~case_ignorable_then_cased(SubSeq(s, i + 1, Len(s)))
    THEN FinalSigma ELSE SmallSigma

\* The lowercase mapping of one character that is not a capital sigma.
to_lower(c) ==
    IF c \in 65..90 THEN <<c + 32>>
    ELSE IF c = CapIDot THEN <<SmallI, CombiningDot>>
    ELSE IF c \in 913..937 THEN <<c + 32>>
    ELSE <<c>>

RECURSIVE LowerFrom(_, _)
LowerFrom(s, i) ==
    IF i > Len(s) THEN <<>>
    ELSE (IF s[i] = CapSigma THEN <<map_uppercase_sigma(s, i)>> ELSE to_lower(s[i]))
         \o LowerFrom(s, i + 1)

to_lowercase(s) == LowerFrom(s, 1)

----------------------------------------------------------------------------
(* search and search_case_insensitive                                       *)

\* Variant of search that matches the query at the start of a line only.
searchPrefixOnly(q, c) == SelectSeq(Lines(c), LAMBDA line : StartsWith(line, q))

search(q, c) == SelectSeq(Lines(c), LAMBDA line : Contains(line, q))

RECURSIVE CILoop(_, _, _)
\* The for loop of search_case_insensitive over the remaining lines.
CILoop(q, rest, acc) ==
    IF rest = <<>> THEN acc
    ELSE CILoop(q, Tail(rest),
                IF Contains(to_lowercase(Head(rest)), q)
                THEN Append(acc, Head(rest)) ELSE acc)

\* Variant of search_case_insensitive that lowercases the lines only.
searchQueryNotLowered(q, c) == CILoop(q, Lines(c), <<>>)

search_case_insensitive(q, c) == CILoop(to_lowercase(q), Lines(c), <<>>)

----------------------------------------------------------------------------
(* SpecSearch: the search functions on bounded inputs                       *)

IdleBuild == args = <<>> /\ env = None /\ built = None

IdleRun ==
    /\ config = None /\ disk = <<>> /\ results = None /\ idx = 0
    /\ out = <<>> /\ ret = None

InitSearch ==
    /\ pc = "input"
    /\ query \in SeqsUpTo(QueryChars, MaxQueryLen)
    /\ contents \in SeqsUpTo(ContentChars, MaxContentLen)
    /\ res_cs = None /\ res_ci = None
    /\ IdleBuild /\ IdleRun

Search ==
    /\ pc = "input"
    /\ res_cs' = Ok(search(query, contents))
    /\ pc' = "cs"
    /\ UNCHANGED <<query, contents, res_ci, args, env, built,
                   config, disk, results, idx, out, ret>>

SearchCaseInsensitive ==
    /\ pc = "cs"
    /\ res_ci' = Ok(search_case_insensitive(query, contents))
    /\ pc' = "both"
    /\ UNCHANGED <<query, contents, res_cs, args, env, built,
                   config, disk, results, idx, out, ret>>

NextSearch == Search \/ SearchCaseInsensitive

SpecSearch == InitSearch /\ [][NextSearch]_vars

----------------------------------------------------------------------------
(* Config::build                                                            *)

\* Iterator::next on the arguments that remain.
IterNext(it) ==
    IF it = <<>> THEN [item |-> None, rest |-> <<>>]
    ELSE [item |-> Some(Head(it)), rest |-> Tail(it)]

\* Validity as UTF-8 of a value made of EnvBytes: its only byte above 127
\* starts no encoding.
IsValidUtf8(bytes) == \A i \in 1..Len(bytes) : bytes[i] < 128

\* env::var on the entry e of the environment.
env_var(e) ==
    IF e.tag = "None" THEN Err("NotPresent")
    ELSE IF IsValidUtf8(e.val) THEN Ok(e.val)
    ELSE Err("NotUnicode")

\* Variant of ConfigBuild that does not skip the program name.
ConfigBuildNoSkip(a, e) ==
    LET n2 == IterNext(a)
        n3 == IterNext(n2.rest)
    IN  IF n2.item.tag = "None" THEN Err("Didn't get a query string")
        ELSE IF n3.item.tag = "None" THEN Err("Didn't get a file path")
        ELSE Ok([query |-> n2.item.val, file_path |-> n3.item.val,
                 ignore_case |-> env_var(e).tag = "Ok"])

\* Variant of ConfigBuild with the two error messages exchanged.
ConfigBuildSwappedErrors(a, e) ==
    LET n1 == IterNext(a)
        n2 == IterNext(n1.rest)
        n3 == IterNext(n2.rest)
    IN  IF n2.item.tag = "None" THEN Err("Didn't get a file path")
        ELSE IF n3.item.tag = "None" THEN Err("Didn't get a query string")
        ELSE Ok([query |-> n2.item.val, file_path |-> n3.item.val,
                 ignore_case |-> env_var(e).tag = "Ok"])

ConfigBuild(a, e) ==
    LET n1 == IterNext(a)
        n2 == IterNext(n1.rest)
        n3 == IterNext(n2.rest)
    IN  IF n2.item.tag = "None" THEN Err("Didn't get a query string")
        ELSE IF n3.item.tag = "None" THEN Err("Didn't get a file path")
        ELSE Ok([query |-> n2.item.val, file_path |-> n3.item.val,
                 ignore_case |-> env_var(e).tag = "Ok"])

IdleSearch == query = <<>> /\ contents = <<>> /\ res_cs = None /\ res_ci = None

InitBuild ==
    /\ pc = "args"
    /\ args \in SeqsUpTo(ArgStrings, MaxArgs)
    /\ env \in {None} \cup {Some(v) : v \in SeqsUpTo(EnvBytes, MaxEnvLen)}
    /\ built = None
    /\ IdleSearch /\ IdleRun

Build ==
    /\ pc = "args"
    /\ built' = ConfigBuild(args, env)
    /\ pc' = "built"
    /\ UNCHANGED <<query, contents, res_cs, res_ci, args, env,
                   config, disk, results, idx, out, ret>>

NextBuild == Build

SpecBuild == InitBuild /\ [][NextBuild]_vars

----------------------------------------------------------------------------
(* run                                                                      *)

\* Variant of read_to_string that reads a missing file as empty text.
readMissingAsEmpty(path, text) ==
    IF path = "poem.txt" THEN Ok(text)
    ELSE IF path = "missing.txt" THEN Ok(<<>>)
    ELSE IF path = "secret.txt" THEN Err("PermissionDenied")
    ELSE Err("InvalidData")

\* fs::read_to_string on a file system where poem.txt holds `text`,
\* missing.txt does not exist, secret.txt is not readable and binary.dat is
\* not UTF-8.
read_to_string(path, text) ==
    IF path = "poem.txt" THEN Ok(text)
    ELSE IF path = "missing.txt" THEN Err("NotFound")
    ELSE IF path = "secret.txt" THEN Err("PermissionDenied")
    ELSE Err("InvalidData")

\* Variant of SelectSearch with the two branches exchanged.
SelectSearchSwapped(cfg, c) ==
    IF cfg.ignore_case THEN search(cfg.query, c)
    ELSE search_case_insensitive(cfg.query, c)

\* The search run chooses for a configuration.
SelectSearch(cfg, c) ==
    IF cfg.ignore_case THEN search_case_insensitive(cfg.query, c)
    ELSE search(cfg.query, c)

Init ==
    /\ pc = "run"
    /\ config \in [query : SeqsUpTo(RunQueryChars, MaxRunQueryLen),
                   file_path : Paths,
                   ignore_case : BOOLEAN]
    /\ disk \in SeqsUpTo(FileChars, MaxFileLen)
    /\ results = None /\ idx = 0 /\ out = <<>> /\ ret = None
    /\ IdleSearch /\ IdleBuild

\* let contents = fs::read_to_string(config.file_path)?;
ReadFile ==
    /\ pc = "run"
    /\ LET r == read_to_string(config.file_path, disk) IN
       IF r.tag = "Err"
       THEN /\ ret' = Err(r.err)
            /\ pc' = "returned"
            /\ UNCHANGED contents
       ELSE /\ contents' = r.val
            /\ pc' = "search"
            /\ UNCHANGED ret
    /\ UNCHANGED <<query, res_cs, res_ci, args, env, built,
                   config, disk, results, idx, out>>

\* let results = if config.ignore_case { .. } else { .. };
Dispatch ==
    /\ pc = "search"
    /\ results' = Some(SelectSearch(config, contents))
    /\ idx' = 1
    /\ pc' = "print"
    /\ UNCHANGED <<query, contents, res_cs, res_ci, args, env, built,
                   config, disk, out, ret>>

\* println!("{line}") when the write to standard output succeeds.
PrintLine ==
    /\ pc = "print"
    /\ idx <= Len(results.val)
    /\ out' = out \o results.val[idx] \o <<LF>>
    /\ idx' = idx + 1
    /\ UNCHANGED <<pc, query, contents, res_cs, res_ci, args, env, built,
                   config, disk, results, ret>>

\* println!("{line}") when the write to standard output fails: it panics,
\* after any number of the line's characters short of the whole record.
PrintPanics ==
    /\ pc = "print"
    /\ idx <= Len(results.val)
    /\ \E n \in 0..Len(results.val[idx]) :
          out' = out \o SubSeq(results.val[idx], 1, n)
    /\ pc' = "panicked"
    /\ UNCHANGED <<query, contents, res_cs, res_ci, args, env, built,
                   config, disk, results, idx, ret>>

\* Ok(())
ReturnOk ==
    /\ pc = "print"
    /\ idx > Len(results.val)
    /\ ret' = Ok(<<>>)
    /\ pc' = "returned"
    /\ UNCHANGED <<query, contents, res_cs, res_ci, args, env, built,
                   config, disk, results, idx, out>>

Next == ReadFile \/ Dispatch \/ PrintLine \/ PrintPanics \/ ReturnOk

Spec == Init /\ [][Next]_vars

----------------------------------------------------------------------------
(* Properties of the search functions                                       *)

\* q occurs in l as a contiguous run of characters.
IsSubstring(q, l) ==
    \E i \in 0..(Len(l) - Len(q)) : SubSeq(l, i + 1, i + Len(q)) = q

RECURSIVE KeepAt(_, _)
\* The elements of s whose positions are in S, in the order of s.
KeepAt(s, S) ==
    IF s = <<>> THEN <<>>
    ELSE KeepAt(SubSeq(s, 1, Len(s) - 1), S)
         \o (IF Len(s) \in S THEN <<s[Len(s)]>> ELSE <<>>)

\* The positions of the lines of c that a result holds.
Positions(c, res) == {i \in 1..Len(Lines(c)) : Lines(c)[i] \in Range(res)}

\* C1: search returns exactly the lines of the contents that contain the
\* query as a contiguous substring, in their original order.
C1_SearchExact ==
    res_cs.tag = "Ok" =>
        LET ls == Lines(contents) IN
        /\ res_cs.val = KeepAt(ls, {i \in 1..Len(ls) : IsSubstring(query, ls[i])})
        /\ \A k \in 1..Len(res_cs.val) : IsSubstring(query, res_cs.val[k])
        /\ \A i \in 1..Len(ls) :
               ls[i] \notin Range(res_cs.val) => ~IsSubstring(query, ls[i])

C1_Witness ==
    /\ res_cs.tag = "Ok"
    /\ Len(query) = 2
    /\ Len(Lines(contents)) = 2
    /\ Len(res_cs.val) = 1

\* C2: search_case_insensitive returns, in original order, exactly the lines
\* whose lowercase form contains the lowercase form of the query, and each
\* returned element is the original line, also when lowercasing changes a
\* length.
C2_CaseInsensitiveExact ==
    res_ci.tag = "Ok" =>
        LET ls == Lines(contents) IN
        res_ci.val =
            KeepAt(ls, {i \in 1..Len(ls) :
                           IsSubstring(to_lowercase(query), to_lowercase(ls[i]))})

C2_Witness ==
    /\ res_ci.tag = "Ok"
    /\ Len(to_lowercase(query)) # Len(query)
    /\ \E k \in 1..Len(res_ci.val) :
          /\ Len(to_lowercase(res_ci.val[k])) # Len(res_ci.val[k])
          /\ CapA \in Range(res_ci.val[k])

\* C3: every line position returned by search is also returned by
\* search_case_insensitive for the same query and contents.
C3_CaseInsensitiveSuperset ==
    (res_cs.tag = "Ok" /\ res_ci.tag = "Ok") =>
        Positions(contents, res_cs.val) \subseteq Positions(contents, res_ci.val)

\* C9: for the empty query and non-empty contents both searches return every
\* line of the contents, in order.
C9_EmptyQueryMatchesAll ==
    (pc = "both" /\ query = <<>> /\ contents # <<>>) =>
        /\ res_cs.val = Lines(contents)
        /\ res_ci.val = Lines(contents)
        /\ Len(res_cs.val) >= 1
        /\ Len(res_ci.val) = Cardinality({i \in 1..Len(contents) : contents[i] = LF})
                             + (IF contents[Len(contents)] = LF THEN 0 ELSE 1)

C9_Witness ==
    /\ pc = "both" /\ query = <<>>
    /\ Len(res_cs.val) = 2 /\ Len(res_ci.val) = 2
    /\ CapSigma \in Range(contents)

RECURSIVE ToCRLF(_)
\* s with every line feed written as carriage return + line feed.
ToCRLF(s) ==
    IF s = <<>> THEN <<>>
    ELSE (IF Head(s) = LF THEN <<CR, LF>> ELSE <<Head(s)>>) \o ToCRLF(Tail(s))

\* Every terminator of s is a lone line feed.
LFTerminated(s) == \A i \in 1..(Len(s) - 1) : ~(s[i] = CR /\ s[i + 1] = LF)

\* What follows the last line feed of s.
AfterLastLF(s) ==
    LET n == IF \E i \in 1..Len(s) : s[i] = LF
             THEN CHOOSE i \in 1..Len(s) :
                      s[i] = LF /\ \A j \in (i + 1)..Len(s) : s[j] # LF
             ELSE 0
    IN SubSeq(s, n + 1, Len(s))

\* C10: the searches give the same result for contents with LF terminators
\* and for the same contents with CRLF terminators; no returned line holds a
\* line feed; a final line without a terminator is searched and returned
\* like any other line.
C10_UniformTerminators ==
    pc = "both" =>
        /\ LFTerminated(contents) =>
              /\ res_cs.val = search(query, ToCRLF(contents))
              /\ res_ci.val = search_case_insensitive(query, ToCRLF(contents))
        /\ \A k \in 1..Len(res_cs.val) : LF \notin Range(res_cs.val[k])
        /\ \A k \in 1..Len(res_ci.val) : LF \notin Range(res_ci.val[k])
        /\ (contents # <<>> /\ contents[Len(contents)] # LF) =>
              LET last == AfterLastLF(contents) IN
              /\ Lines(contents)[Len(Lines(contents))] = last
              /\ IsSubstring(query, last) <=>
                    (res_cs.val # <<>> /\ res_cs.val[Len(res_cs.val)] = last)
              /\ IsSubstring(to_lowercase(query), to_lowercase(last)) <=>
                    (res_ci.val # <<>> /\ res_ci.val[Len(res_ci.val)] = last)

C10_Witness ==
    /\ pc = "both"
    /\ LFTerminated(contents)
    /\ LF \in Range(contents)
    /\ contents[Len(contents)] # LF
    /\ query # <<>>
    /\ Len(res_cs.val) = 2 /\ Len(res_ci.val) = 2

----------------------------------------------------------------------------
(* Properties of Config::build                                              *)

\* C4: Config::build fails when fewer than two arguments follow the program
\* name and succeeds otherwise; on success query is the second and file_path
\* the third element, whatever the first and the further elements are.
C4_BuildCapturesArguments ==
    pc = "built" =>
        /\ Len(args) < 3 => built.tag = "Err"
        /\ Len(args) >= 3 =>
              /\ built.tag = "Ok"
              /\ built.val.query = args[2]
              /\ built.val.file_path = args[3]

C4_Witness ==
    /\ pc = "built"
    /\ Len(args) = 4
    /\ built.tag = "Ok"
    /\ args[1] # args[2] /\ args[2] # args[3] /\ args[4] # args[3]

\* C5: Config::build fails with "Didn't get a query string" when the second
\* element is absent and with "Didn't get a file path" when the second is
\* present and the third absent; no Config is produced in either case.
C5_BuildErrors ==
    pc = "built" =>
        /\ Len(args) <= 1 => built = Err("Didn't get a query string")
        /\ Len(args) = 2 => built = Err("Didn't get a file path")

C5_Witness ==
    /\ pc = "built"
    /\ args = <<"prog", "foo">>
    /\ built.tag = "Err"

\* C6: when Config::build succeeds, ignore_case is true if and only if
\* IGNORE_CASE is set, whatever its value.
C6_IgnoreCaseIffSet ==
    (pc = "built" /\ built.tag = "Ok") =>
        (built.val.ignore_case <=> env.tag = "Some")

----------------------------------------------------------------------------
(* Properties of run                                                        *)

Readable(path) == path = "poem.txt"

RECURSIVE Printed(_)
\* The characters of the lines, each followed by a line feed.
Printed(ls) ==
    IF ls = <<>> THEN <<>> ELSE Head(ls) \o <<LF>> \o Printed(Tail(ls))

\* The result of the search the configuration asks for, on the file's text.
Expected ==
    IF config.ignore_case THEN search_case_insensitive(config.query, disk)
    ELSE search(config.query, disk)

Finished == pc \in {"returned", "panicked"}

====
